---- MODULE Spec2Model ----
(***************************************************************************)
(* A model of semanticscholar_datasetapi/api.py: the SemanticScholarDataset*)
(* client, its two transport helpers (__api_request, __download_file) with *)
(* the urllib3 Retry policy they mount, and the six public operations.     *)
(* The remote API and the network are the environment: every HTTP attempt  *)
(* is answered by a status drawn from StatusInputs, and a successful API   *)
(* response carries a body drawn from a small set of manifests.            *)
(***************************************************************************)
EXTENDS Integers, Sequences, FiniteSets, TLC

VARIABLES
    api_key,    \* self.api_key: None or the key given to the constructor
    headers,    \* self.headers: Unset (attribute absent) or the header dict
    pc,         \* "idle" | "request" | "streaming" | "done"
    op,         \* the public method being executed (or last executed)
    args,       \* its arguments
    stage,      \* which request is in flight: "releases" | "manifest" | "file"
    url,        \* URL of the request in flight
    statuses,   \* responses received by the attempts of the current request
    queue,      \* the (url, save_name) pairs the download loops iterate over
    idx,        \* position of the current download in queue (1-based), 0 = none
    nread,      \* chunks of the current body already consumed by iter_content
    fs,         \* local filesystem: file name -> content
    fsBefore,   \* fs as it was when the current __download_file was entered
    releases,   \* the release list this call received, if any
    manifest,   \* the manifest this call received, if any
    log,        \* events of the current call: GET / open / close, in order
    result,     \* "none" | "ok" | the exception raised to the caller
    retval,     \* the value returned to the caller, if any
    calls,      \* number of public calls made on this client
    prev        \* outcome of the previous call, when it returned normally

vars == <<api_key, headers, pc, op, args, stage, url, statuses, queue, idx,
          nread, fs, fsBefore, releases, manifest, log, result, retval, calls,
          prev>>

(***************************************************************************)
(* Bounds of the model.                                                    *)
(***************************************************************************)
MaxCalls == 2       \* a call and its repetitions, on one client
MaxFiles == 2       \* longest plain release manifest the remote serves

(***************************************************************************)
(* Program constants.                                                      *)
(***************************************************************************)
BASE_URL == "https://api.semanticscholar.org/datasets/v1"

AVAILABLE_DATASETS ==
    <<"abstracts", "authors", "citations", "embeddings-specter_v1",
      "embeddings-specter_v2", "paper-ids", "papers", "publication-venues",
      "s2orc", "tldrs">>

\* Retry(total=5, backoff_factor=0.3, status_forcelist=[429, 500, 502, 503, 504])
total == 5
status_forcelist == {429, 500, 502, 503, 504}

\* Python's None where a string is expected (an argument, an f-string
\* field); a field that does not apply.
None == "None"
NA == "-"

\* Optional values are sequences of length 0 or 1.
Nothing == <<>>
Some(v) == <<v>>

\* The instance attribute self.headers: absent until __init__ assigns it.
Unset == [present |-> FALSE, x_api_key |-> None]

\* A connection-level failure of one attempt (no status line at all).
ConnFail == 0

\* Exceptions that reach the caller.
ApiKeyRequired == "ValueError: API key is required to access the Semantic Scholar Dataset API."
InvalidDataset == "ValueError: Invalid dataset name."
SpecificRelease == "ValueError: Please provide a specific release ID."
InvalidRelease == "ValueError: Invalid release ID."
NoDownloadUrls == "ValueError: No download URLs found."
AttributeError == "AttributeError: 'SemanticScholarDataset' object has no attribute 'headers'"
HTTPError == "requests.HTTPError"
RetryError == "requests.RetryError"
ConnectionError == "requests.ConnectionError"
StreamError == "requests.ChunkedEncodingError"

(***************************************************************************)
(* Inputs: what callers pass and what the remote answers.                  *)
(***************************************************************************)
R1 == "2024-01-01"
R2 == "2024-02-01"
R3 == "2024-03-01"

DatasetInputs == {"papers", "bogus", None}
ReleaseInputs == {"latest", R1, R2}
KeyInputs == {None, "secret"}
StatusInputs == {200, 400, 404, 501, 503, ConnFail}

FileUrl(i) == "https://files.example/f" \o ToString(i)
FilesOf(n) == [i \in 1..n |-> FileUrl(i)]

ReleaseListInputs == {<<>>, <<R1>>, <<R2, R1>>}

ReleaseManifestInputs ==
    {[files |-> FilesOf(n)] : n \in 0..MaxFiles}
        \cup {[files |-> <<FileUrl(2), FileUrl(1)>>]}

DiffManifestInputs ==
    { [diffs |-> <<>>],
      [diffs |-> << [from_release |-> R1, to_release |-> R2,
                     update_files |-> <<FileUrl(1), FileUrl(2)>>,
                     delete_files |-> <<FileUrl(3)>>] >>],
      [diffs |-> << [from_release |-> R1, to_release |-> R2,
                     update_files |-> <<FileUrl(1)>>,
                     delete_files |-> <<>>],
                    [from_release |-> R2, to_release |-> R3,
                     update_files |-> <<>>,
                     delete_files |-> <<FileUrl(2)>>] >>] }

\* The body the remote streams for a file URL, chunk by chunk.
Body(u) == <<u \o "#0;", u \o "#1;">>

\* The complete content of a body: the concatenation of its chunks.
RECURSIVE Concat(_)
Concat(s) == IF s = <<>> THEN "" ELSE Head(s) \o Concat(Tail(s))

(***************************************************************************)
(* Pure helpers of the client.                                             *)
(***************************************************************************)
Range(s) == {s[i] : i \in DOMAIN s}

\* response.get(key, default)
Get(d, key, default) == IF key \in DOMAIN d THEN d[key] ELSE default

ReleasesUrl == BASE_URL \o "/release"
ReleaseUrl(release_id, datasetname) ==
    BASE_URL \o "/release/" \o release_id \o "/dataset/" \o datasetname
DiffsUrl(start_release_id, end_release_id, datasetname) ==
    BASE_URL \o "/diffs/" \o start_release_id \o "/to/" \o end_release_id
             \o "/" \o datasetname

\* Mutant: the file index is left out of the name.
ReleaseSaveName_unindexed(datasetname, release, i) ==
    datasetname \o "_" \o release \o ".json.gz"

\* f"{datasetname}_{release}_{i}.json.gz", i the 0-based enumerate index
ReleaseSaveName(datasetname, release, i) ==
    datasetname \o "_" \o release \o "_" \o ToString(i) \o ".json.gz"

\* f"{datasetname}_{from_release}_{to_release}_{kind}_{i}.json.gz"
DiffSaveName(datasetname, from_release, to_release, kind, i) ==
    datasetname \o "_" \o from_release \o "_" \o to_release \o "_" \o kind
                \o "_" \o ToString(i) \o ".json.gz"

\* for i, url in enumerate(download_urls): (url, save_name)
ReleasePlan(datasetname, release, download_urls) ==
    [k \in 1..Len(download_urls) |->
        [url |-> download_urls[k],
         save_name |-> ReleaseSaveName(datasetname, release, k - 1)]]

\* Mutant: the delete files of an entry are fetched before its update files.
DiffEntryPlan_deletes_first(datasetname, diff) ==
    [k \in 1..Len(diff.delete_files) |->
        [url |-> diff.delete_files[k],
         save_name |-> DiffSaveName(datasetname, diff.from_release,
                                    diff.to_release, "delete", k - 1)]]
    \o
    [k \in 1..Len(diff.update_files) |->
        [url |-> diff.update_files[k],
         save_name |-> DiffSaveName(datasetname, diff.from_release,
                                    diff.to_release, "update", k - 1)]]

\* One diff entry: every update file, then every delete file.
DiffEntryPlan(datasetname, diff) ==
    LET from_release == Get(diff, "from_release", None)
        to_release == Get(diff, "to_release", None)
        update_files == Get(diff, "update_files", <<>>)
        delete_files == Get(diff, "delete_files", <<>>)
    IN  [k \in 1..Len(update_files) |->
            [url |-> update_files[k],
             save_name |-> DiffSaveName(datasetname, from_release, to_release,
                                        "update", k - 1)]]
        \o
        [k \in 1..Len(delete_files) |->
            [url |-> delete_files[k],
             save_name |-> DiffSaveName(datasetname, from_release, to_release,
                                        "delete", k - 1)]]

\* for diff in diffs: ... , flattened in iteration order
RECURSIVE DiffPlan(_, _)
DiffPlan(datasetname, diffs) ==
    IF diffs = <<>> THEN <<>>
    ELSE DiffEntryPlan(datasetname, Head(diffs)) \o DiffPlan(datasetname, Tail(diffs))

IsDataset(datasetname) == datasetname \in Range(AVAILABLE_DATASETS)

(***************************************************************************)
(* The urllib3 Retry policy mounted by both transport helpers.             *)
(***************************************************************************)
\* A response that Retry counts as a failure to be retried: a status of the
\* forcelist, or a connection-level error.
Retryable(s) == s = ConnFail \/ s \in status_forcelist

\* Mutant: total is taken as the number of attempts.
is_exhausted_at_zero(n) == total - n <= 0

\* Retry.increment() after the n-th failed attempt leaves total - n, and
\* is_exhausted() is "the counter went below zero".
is_exhausted(n) == total - n < 0

\* response.raise_for_status()
raise_for_status(s) == s >= 400 /\ s < 600

\* What the n-th response s (n counts it) does to the request.
Verdict(s, n) ==
    IF Retryable(s)
    THEN IF is_exhausted(n)
         THEN (IF s = ConnFail THEN ConnectionError ELSE RetryError)
         ELSE "retry"
    ELSE IF raise_for_status(s) THEN HTTPError ELSE "ok"

(***************************************************************************)
(* Outcomes of a synchronous stretch of client code: it raises, returns,   *)
(* or blocks in an HTTP request.                                           *)
(***************************************************************************)
Raise(e) ==
    [kind |-> "raise", err |-> e, val |-> Nothing, stage |-> NA, url |-> NA,
     queue |-> <<>>, idx |-> 0]
Return(v) ==
    [kind |-> "return", err |-> NA, val |-> Some(v), stage |-> NA, url |-> NA,
     queue |-> <<>>, idx |-> 0]
Request(st, u) ==
    [kind |-> "request", err |-> NA, val |-> Nothing, stage |-> st, url |-> u,
     queue |-> <<>>, idx |-> 0]

\* session.get(url, headers=self.headers): reading self.headers comes first.
api_request(u, st) ==
    IF ~headers.present THEN Raise(AttributeError) ELSE Request(st, u)

\* __download_file(url, save_name) for entry k of the plan q, or the end of
\* the loops when the plan is used up (idx then stays on the last entry).
download_file(q, k) ==
    IF k > Len(q) THEN [Return(None) EXCEPT !.queue = q, !.idx = Len(q)]
    ELSE [api_request(q[k].url, "file") EXCEPT !.queue = q, !.idx = k]

\* Mutant: the loop catches the exception and goes on with the next file.
Propagate_swallowed(q, k, e) == download_file(q, k + 1)

\* No method catches anything: an exception raised inside the download of
\* entry k of plan q leaves the loops and the method at once.
Propagate(q, k, e) == [Raise(e) EXCEPT !.queue = q, !.idx = k]

get_available_releases == api_request(ReleasesUrl, "releases")

\* Mutant: the dataset name is not validated.
get_download_urls_from_release_unchecked(datasetname, release_id) ==
    IF api_key = None THEN Raise(ApiKeyRequired)
    ELSE api_request(ReleaseUrl(release_id, datasetname), "manifest")

get_download_urls_from_release(datasetname, release_id) ==
    IF api_key = None THEN Raise(ApiKeyRequired)
    ELSE IF ~IsDataset(datasetname) THEN Raise(InvalidDataset)
    ELSE api_request(ReleaseUrl(release_id, datasetname), "manifest")

get_download_urls_from_diffs(start_release_id, end_release_id, datasetname) ==
    IF api_key = None THEN Raise(ApiKeyRequired)
    ELSE IF ~IsDataset(datasetname) THEN Raise(InvalidDataset)
    ELSE api_request(DiffsUrl(start_release_id, end_release_id, datasetname),
                     "manifest")

download_latest_release(datasetname) ==
    IF ~IsDataset(datasetname) THEN Raise(InvalidDataset)
    ELSE get_download_urls_from_release(datasetname, "latest")

download_past_release(release_id, datasetname) ==
    IF ~IsDataset(datasetname) THEN Raise(InvalidDataset)
    ELSE IF release_id = "latest" THEN Raise(SpecificRelease)
    ELSE get_available_releases

download_diffs(start_release_id, end_release_id, datasetname) ==
    IF ~IsDataset(datasetname) THEN Raise(InvalidDataset)
    ELSE get_download_urls_from_diffs(start_release_id, end_release_id,
                                      datasetname)

\* Mutant: the release id is not looked up in the list.
after_releases_unvalidated(o, a, release_ids) ==
    IF o = "download_past_release"
    THEN get_download_urls_from_release(a.datasetname, a.release_id)
    ELSE Return(release_ids)

\* The code that runs once the release list has arrived.
after_releases(o, a, release_ids) ==
    IF o = "download_past_release"
    THEN IF a.release_id \notin Range(release_ids) THEN Raise(InvalidRelease)
         ELSE get_download_urls_from_release(a.datasetname, a.release_id)
    ELSE Return(release_ids)

\* Mutant: an empty files list is not rejected.
after_manifest_unchecked(o, a, response) ==
    CASE o = "download_latest_release" ->
            download_file(ReleasePlan(a.datasetname, "latest",
                                      Get(response, "files", <<>>)), 1)
      [] o = "download_past_release" ->
            download_file(ReleasePlan(a.datasetname, a.release_id,
                                      Get(response, "files", <<>>)), 1)
      [] o = "download_diffs" ->
            download_file(DiffPlan(a.datasetname, Get(response, "diffs", <<>>)), 1)
      [] OTHER -> Return(response)

\* The code that runs once a manifest has arrived.
after_manifest(o, a, response) ==
    CASE o = "download_latest_release" ->
            LET download_urls == Get(response, "files", <<>>)
            IN  IF download_urls = <<>> THEN Raise(NoDownloadUrls)
                ELSE download_file(
                        ReleasePlan(a.datasetname, "latest", download_urls), 1)
      [] o = "download_past_release" ->
            LET download_urls == Get(response, "files", <<>>)
            IN  IF download_urls = <<>> THEN Raise(NoDownloadUrls)
                ELSE download_file(
                        ReleasePlan(a.datasetname, a.release_id, download_urls), 1)
      [] o = "download_diffs" ->
            download_file(DiffPlan(a.datasetname, Get(response, "diffs", <<>>)), 1)
      [] OTHER -> Return(response)

\* open(save_name, "wb"): create or truncate.
OpenForWrite(f, save_name) == (save_name :> "") @@ f

\* f.write(chunk), guarded by "if chunk".
WriteChunk(f, save_name, chunk) ==
    IF chunk # "" THEN [f EXCEPT ![save_name] = @ \o chunk] ELSE f

\* Mutant: the destination is opened before the status is looked at.
FsOnVerdict_open_first(f, save_name, v) == (save_name :> "") @@ f

\* What __download_file does to the filesystem when its request ends with
\* verdict v: the file is opened only past raise_for_status().
FsOnVerdict(f, save_name, v) ==
    IF v = "ok" THEN OpenForWrite(f, save_name) ELSE f

(***************************************************************************)
(* State machine.                                                          *)
(***************************************************************************)
Event(e, w) == [ev |-> e, what |-> w]

NoArgs ==
    [datasetname |-> NA, release_id |-> NA, start_release_id |-> NA,
     end_release_id |-> NA]

NoPrev == [result |-> "none", queue |-> <<>>]

Init ==
    /\ api_key \in KeyInputs
    /\ headers = IF api_key # None
                 THEN [present |-> TRUE, x_api_key |-> api_key] ELSE Unset
    /\ pc = "idle"
    /\ op = NA
    /\ args = NoArgs
    /\ stage = NA
    /\ url = NA
    /\ statuses = <<>>
    /\ queue = <<>>
    /\ idx = 0
    /\ nread = 0
    /\ fs = <<>>
    /\ fsBefore = <<>>
    /\ releases = Nothing
    /\ manifest = Nothing
    /\ log = <<>>
    /\ result = "none"
    /\ retval = Nothing
    /\ calls = 0
    /\ prev = NoPrev

\* Carry out outcome o; lg, sts and f are the log, the attempt history and
\* the filesystem the stretch of code leaves behind.
Apply(o, lg, sts, f) ==
    /\ pc' = IF o.kind = "request" THEN "request" ELSE "done"
    /\ result' = CASE o.kind = "raise" -> o.err
                   [] o.kind = "return" -> "ok"
                   [] OTHER -> "none"
    /\ retval' = o.val
    /\ stage' = IF o.kind = "request" THEN o.stage ELSE stage
    /\ url' = IF o.kind = "request" THEN o.url ELSE url
    /\ statuses' = IF o.kind = "request" THEN <<>> ELSE sts
    /\ queue' = o.queue
    /\ idx' = o.idx
    /\ nread' = IF o.kind = "request" THEN 0 ELSE nread
    /\ fs' = f
    /\ fsBefore' = IF o.kind = "request" THEN f ELSE fsBefore
    /\ log' = IF o.kind = "request" THEN Append(lg, Event("GET", o.url)) ELSE lg
    /\ UNCHANGED <<api_key, headers>>

\* The synchronous entry of public method o with arguments a: its code up
\* to its first HTTP request, its return or its exception.
Entry(o, a) ==
    CASE o = "get_available_datasets" -> Return(AVAILABLE_DATASETS)
      [] o = "get_available_releases" -> get_available_releases
      [] o = "get_download_urls_from_release" ->
            get_download_urls_from_release(a.datasetname, a.release_id)
      [] o = "get_download_urls_from_diffs" ->
            get_download_urls_from_diffs(a.start_release_id, a.end_release_id,
                                         a.datasetname)
      [] o = "download_latest_release" -> download_latest_release(a.datasetname)
      [] o = "download_past_release" ->
            download_past_release(a.release_id, a.datasetname)
      [] o = "download_diffs" ->
            download_diffs(a.start_release_id, a.end_release_id, a.datasetname)

\* A caller invokes public method o with arguments a.
Invoke(o, a) ==
    LET outcome == Entry(o, a) IN
    /\ calls < MaxCalls
    /\ op' = o
    /\ args' = a
    /\ calls' = calls + 1
    /\ prev' = IF pc = "done" /\ result = "ok"
               THEN [result |-> result, queue |-> queue] ELSE NoPrev
    /\ stage' = IF outcome.kind = "request" THEN outcome.stage ELSE NA
    /\ url' = IF outcome.kind = "request" THEN outcome.url ELSE NA
    /\ pc' = IF outcome.kind = "request" THEN "request" ELSE "done"
    /\ result' = CASE outcome.kind = "raise" -> outcome.err
                   [] outcome.kind = "return" -> "ok"
                   [] OTHER -> "none"
    /\ retval' = outcome.val
    /\ statuses' = <<>>
    /\ queue' = <<>>
    /\ idx' = 0
    /\ nread' = 0
    /\ fsBefore' = fs
    /\ releases' = Nothing
    /\ manifest' = Nothing
    /\ log' = IF outcome.kind = "request"
              THEN <<Event("GET", outcome.url)>> ELSE <<>>
    /\ UNCHANGED <<api_key, headers, fs>>

\* First calls on a freshly constructed client.
Call_get_available_datasets ==
    /\ pc = "idle"
    /\ Invoke("get_available_datasets", NoArgs)

Call_get_available_releases ==
    /\ pc = "idle"
    /\ Invoke("get_available_releases", NoArgs)

Call_get_download_urls_from_release ==
    /\ pc = "idle"
    /\ \E d \in DatasetInputs, r \in ReleaseInputs :
        Invoke("get_download_urls_from_release",
               [NoArgs EXCEPT !.datasetname = d, !.release_id = r])

Call_get_download_urls_from_diffs ==
    /\ pc = "idle"
    /\ \E d \in DatasetInputs, s \in ReleaseInputs \ {"latest"},
          e \in ReleaseInputs \ {R1} :
        Invoke("get_download_urls_from_diffs",
               [NoArgs EXCEPT !.datasetname = d, !.start_release_id = s,
                              !.end_release_id = e])

Call_download_latest_release ==
    /\ pc = "idle"
    /\ \E d \in DatasetInputs :
        Invoke("download_latest_release", [NoArgs EXCEPT !.datasetname = d])

Call_download_past_release ==
    /\ pc = "idle"
    /\ \E d \in DatasetInputs, r \in ReleaseInputs :
        Invoke("download_past_release",
               [NoArgs EXCEPT !.datasetname = d, !.release_id = r])

Call_download_diffs ==
    /\ pc = "idle"
    /\ \E d \in DatasetInputs, s \in ReleaseInputs \ {"latest"},
          e \in ReleaseInputs \ {R1} :
        Invoke("download_diffs",
               [NoArgs EXCEPT !.datasetname = d, !.start_release_id = s,
                              !.end_release_id = e])

\* The caller re-invokes the method that just ended, with identical
\* arguments, on the same client and the same working directory.
Repeat ==
    /\ pc = "done"
    /\ Invoke(op, args)

\* The save_name of the download in progress.
current_save_name == IF idx \in DOMAIN queue THEN queue[idx].save_name ELSE NA

\* An attempt is answered by a retryable failure and retries remain: Retry
\* sleeps its backoff and the same request is sent again.
RetryAttempt ==
    /\ pc = "request"
    /\ \E s \in StatusInputs :
        /\ Verdict(s, Len(statuses) + 1) = "retry"
        /\ statuses' = Append(statuses, s)
    /\ UNCHANGED <<api_key, headers, pc, op, args, stage, url, queue, idx,
                   nread, fs, fsBefore, releases, manifest, log, result,
                   retval, calls, prev>>

\* The request ends in an exception: retries exhausted (session.get raises)
\* or a final error status (raise_for_status raises).
RequestFails ==
    /\ pc = "request"
    /\ \E s \in StatusInputs :
        LET v == Verdict(s, Len(statuses) + 1) IN
        /\ v \notin {"retry", "ok"}
        /\ Apply(Propagate(queue, idx, v), log, Append(statuses, s),
                 IF stage = "file" THEN FsOnVerdict(fs, current_save_name, v) ELSE fs)
    /\ UNCHANGED <<op, args, releases, manifest, calls, prev>>

\* GET /release succeeds; response.json() is the list of release ids.
ReleasesResponse ==
    /\ pc = "request"
    /\ stage = "releases"
    /\ \E s \in StatusInputs, body \in ReleaseListInputs :
        /\ Verdict(s, Len(statuses) + 1) = "ok"
        /\ releases' = Some(body)
        /\ Apply(after_releases(op, args, body), log, Append(statuses, s), fs)
    /\ UNCHANGED <<op, args, manifest, calls, prev>>

\* A manifest GET succeeds; response.json() is the manifest.
ManifestResponse ==
    /\ pc = "request"
    /\ stage = "manifest"
    /\ \E s \in StatusInputs :
        /\ Verdict(s, Len(statuses) + 1) = "ok"
        /\ \E body \in IF op \in {"get_download_urls_from_diffs", "download_diffs"}
                       THEN DiffManifestInputs ELSE ReleaseManifestInputs :
            /\ manifest' = Some(body)
            /\ Apply(after_manifest(op, args, body), log, Append(statuses, s), fs)
    /\ UNCHANGED <<op, args, releases, calls, prev>>

\* The file GET succeeds: raise_for_status passes and the file is opened.
FileResponse ==
    /\ pc = "request"
    /\ stage = "file"
    /\ \E s \in StatusInputs :
        LET v == Verdict(s, Len(statuses) + 1) IN
        /\ v = "ok"
        /\ statuses' = Append(statuses, s)
        /\ fs' = FsOnVerdict(fs, current_save_name, v)
    /\ pc' = "streaming"
    /\ nread' = 0
    /\ log' = Append(log, Event("open", current_save_name))
    /\ UNCHANGED <<api_key, headers, op, args, stage, url, queue, idx,
                   fsBefore, releases, manifest, result, retval, calls, prev>>

\* iter_content yields the next chunk and it is written.
StreamChunk ==
    /\ pc = "streaming"
    /\ nread < Len(Body(url))
    /\ fs' = WriteChunk(fs, current_save_name, Body(url)[nread + 1])
    /\ nread' = nread + 1
    /\ UNCHANGED <<api_key, headers, pc, op, args, stage, url, statuses, queue,
                   idx, fsBefore, releases, manifest, log, result, retval,
                   calls, prev>>

\* The connection breaks while the body is streamed: iter_content raises,
\* the with-blocks close the file as it is.
StreamFails ==
    /\ pc = "streaming"
    /\ nread < Len(Body(url))
    /\ Apply(Propagate(queue, idx, StreamError),
             Append(log, Event("close", current_save_name)), statuses, fs)
    /\ UNCHANGED <<op, args, releases, manifest, calls, prev>>

\* The body is exhausted: the file is closed and the loop moves on to the
\* next (url, save_name), or the method returns.
FinishFile ==
    /\ pc = "streaming"
    /\ nread = Len(Body(url))
    /\ Apply(download_file(queue, idx + 1),
             Append(log, Event("close", current_save_name)), statuses, fs)
    /\ UNCHANGED <<op, args, releases, manifest, calls, prev>>

Next ==
    \/ Call_get_available_datasets
    \/ Call_get_available_releases
    \/ Call_get_download_urls_from_release
    \/ Call_get_download_urls_from_diffs
    \/ Call_download_latest_release
    \/ Call_download_past_release
    \/ Call_download_diffs
    \/ Repeat
    \/ RetryAttempt
    \/ RequestFails
    \/ ReleasesResponse
    \/ ManifestResponse
    \/ FileResponse
    \/ StreamChunk
    \/ StreamFails
    \/ FinishFile

Spec == Init /\ [][Next]_vars

(***************************************************************************)
(* Vocabulary of the properties.                                           *)
(***************************************************************************)
Done == pc = "done"
Started == pc # "idle"

Gets == SelectSeq(log, LAMBDA e : e.ev = "GET")
Opens == SelectSeq(log, LAMBDA e : e.ev = "open")
NoHttp == Gets = <<>>

\* GET events of file URLs: those past the API requests of the call.
FileGets == SelectSeq(log, LAMBDA e : e.ev = "GET" /\ e.what \in {queue[i].url : i \in DOMAIN queue})

DatasetOps ==
    {"get_download_urls_from_release", "get_download_urls_from_diffs",
     "download_latest_release", "download_past_release", "download_diffs"}
ResolveOps == {"get_download_urls_from_release", "get_download_urls_from_diffs"}
ReleaseDownloadOps == {"download_latest_release", "download_past_release"}
DownloadOps == ReleaseDownloadOps \cup {"download_diffs"}
DiffOps == {"get_download_urls_from_diffs", "download_diffs"}

\* The error taxonomy: TransportError.
TransportErrors == {HTTPError, RetryError, ConnectionError, StreamError}

IsPrefix(s, t) == Len(s) <= Len(t) /\ \A i \in DOMAIN s : s[i] = t[i]

(***************************************************************************)
(* C1: an invalid dataset name makes every operation that takes one fail   *)
(* with the 'Invalid dataset name' ValueError, on every client, before any *)
(* HTTP request.                                                           *)
(***************************************************************************)
C1_Original ==
    (Started /\ op \in DatasetOps /\ ~IsDataset(args.datasetname))
        => /\ Done
           /\ result = InvalidDataset
           /\ NoHttp

\* C1 as amended: the call fails before any HTTP request; the error is the
\* 'Invalid dataset name' ValueError, except that the two get_download_urls
\* methods on a client without a credential raise 'API key is required',
\* their credential check coming first.
C1_Amended ==
    (Started /\ op \in DatasetOps /\ ~IsDataset(args.datasetname))
        => /\ Done
           /\ NoHttp
           /\ result = IF api_key = None /\ op \in ResolveOps
                       THEN ApiKeyRequired ELSE InvalidDataset

C1_Witness ==
    /\ Done
    /\ op = "get_download_urls_from_diffs"
    /\ args.datasetname = "bogus"
    /\ api_key # None
    /\ result = InvalidDataset
    /\ NoHttp

(***************************************************************************)
(* C2: on a client without a credential and with a valid dataset name,     *)
(* every operation that needs a credential fails with 'API key is          *)
(* required', with no HTTP request and no other error before it.           *)
(***************************************************************************)
C2_Claim ==
    (/\ Started
     /\ api_key = None
     /\ op \in DatasetOps
     /\ IsDataset(args.datasetname)
     /\ (op = "download_past_release" => args.release_id # "latest"))
        => /\ Done
           /\ result = ApiKeyRequired
           /\ NoHttp

(***************************************************************************)
(* C3: get_available_releases works on every client, with or without an   *)
(* API key: it performs a GET on the releases endpoint and returns the     *)
(* remote's list in the remote's order, or fails with a TransportError,    *)
(* never with another error.                                               *)
(***************************************************************************)
C3_Claim ==
    (Started /\ op = "get_available_releases")
        => /\ Gets = <<Event("GET", ReleasesUrl)>>
           /\ Done => IF result = "ok"
                      THEN releases # Nothing /\ retval = releases
                      ELSE result \in TransportErrors

EmptyManifest ==
    /\ manifest # Nothing
    /\ Get(manifest[1], IF op \in DiffOps THEN "diffs" ELSE "files", <<>>) = <<>>

(***************************************************************************)
(* C4: an empty manifest (zero files, zero diff entries) never ends in     *)
(* success: resolution and the downloads built on it fail with the         *)
(* 'No download URLs found' error.                                         *)
(***************************************************************************)
C4_Original == EmptyManifest => Done /\ result = NoDownloadUrls

\* C4 as amended: on an empty manifest download_latest_release and
\* download_past_release fail with 'No download URLs found' and touch no
\* file; the two get_download_urls methods return the empty manifest as it
\* is; download_diffs returns normally having downloaded nothing.
C4_Amended ==
    EmptyManifest
        => /\ Done
           /\ FileGets = <<>> /\ Opens = <<>> /\ fs = fsBefore
           /\ op \in ReleaseDownloadOps => result = NoDownloadUrls
           /\ op \in ResolveOps => result = "ok" /\ retval = manifest
           /\ op = "download_diffs" => result = "ok" /\ retval = Some(None)

C4_Witness ==
    /\ EmptyManifest
    /\ op = "download_past_release"
    /\ result = NoDownloadUrls

Last(s) == s[Len(s)]
RequestErrors == {HTTPError, RetryError, ConnectionError}
Answered == statuses # <<>>
RequestSucceeded == pc # "request" /\ result \notin RequestErrors

C5_Retried(s) == s = ConnFail \/ s \in {429, 500, 502, 503, 504}

(***************************************************************************)
(* C5: the retry policy of a single HTTP request makes at most 5 attempts  *)
(* in total: 503 x 4 then a success succeeds on the 5th attempt, a request *)
(* that keeps getting a retryable status fails after the 5th attempt with  *)
(* no 6th one, and a 400 fails after exactly 1 attempt.                    *)
(***************************************************************************)
C5_Original ==
    /\ Len(statuses) <= total
    /\ statuses = <<503, 503, 503, 503, 200>> => RequestSucceeded
    /\ (Done /\ result \in {RetryError, ConnectionError}) => Len(statuses) = total
    /\ (Answered /\ statuses[1] = 400)
            => Len(statuses) = 1 /\ Done /\ result = HTTPError

\* C5 as amended: total=5 counts retries, so a request makes at most 6
\* attempts (the first one and 5 retries).  Only a retryable response (a
\* status among 429, 500, 502, 503, 504, or a connection failure) is
\* followed by another attempt; such a response is retried as long as fewer
\* than 6 attempts were made, and the 6th one ends the request in an error
\* with no 7th attempt; 503 x 4 then a success succeeds on the 5th attempt;
\* any other 4xx/5xx status fails at once, so a first 400 fails after
\* exactly 1 attempt.
C5_Amended ==
    /\ Len(statuses) <= total + 1
    /\ \A i \in 1..(Len(statuses) - 1) : C5_Retried(statuses[i])
    /\ pc = "request" => \A i \in DOMAIN statuses : C5_Retried(statuses[i])
    /\ (Answered /\ C5_Retried(Last(statuses)))
            => IF Len(statuses) <= total
               THEN pc = "request"
               ELSE Done /\ result \in {RetryError, ConnectionError}
    /\ (Answered /\ ~C5_Retried(Last(statuses)))
            => IF Last(statuses) >= 400
               THEN Done /\ result = HTTPError
               ELSE RequestSucceeded
    /\ statuses = <<503, 503, 503, 503, 200>> => RequestSucceeded
    /\ (Answered /\ statuses[1] = 400)
            => Len(statuses) = 1 /\ Done /\ result = HTTPError

\* The 6th attempt of a file download is the one that succeeds.
C5_Witness ==
    /\ pc = "streaming"
    /\ stage = "file"
    /\ statuses = <<503, 503, 503, 503, 503, 200>>

ManifestGet == Event("GET", ReleaseUrl(args.release_id, args.datasetname))
ReleasesGet == Event("GET", ReleasesUrl)

\* Every request of the manifest endpoint comes after a request of the
\* release list, and the list received contains the release id.
Validated ==
    \A i \in DOMAIN log :
        log[i] = ManifestGet
            => /\ \E j \in 1..(i - 1) : log[j] = ReleasesGet
               /\ releases # Nothing
               /\ args.release_id \in Range(releases[1])

(***************************************************************************)
(* C6: get_download_urls_from_release and download_past_release, given an  *)
(* explicit release id, check it against the current result of             *)
(* get_available_releases before using it: the manifest endpoint of an     *)
(* unlisted release is never requested.                                    *)
(***************************************************************************)
C6_Original ==
    (/\ op \in {"get_download_urls_from_release", "download_past_release"}
     /\ args.release_id # "latest")
        => Validated

\* C6 as amended: only download_past_release validates the release id (an
\* unlisted id ends the call with 'Invalid release ID' after the single
\* request of the release list); get_download_urls_from_release requests
\* the manifest endpoint of whatever release id it is given, without
\* fetching the release list.
C6_Amended ==
    /\ op = "download_past_release"
        => /\ Validated
           /\ (releases # Nothing /\ args.release_id \notin Range(releases[1]))
                => Done /\ result = InvalidRelease /\ Gets = <<ReleasesGet>>
    /\ (/\ op = "get_download_urls_from_release"
        /\ api_key # None
        /\ IsDataset(args.datasetname))
        => Gets = <<ManifestGet>> /\ releases = Nothing

C6_Witness ==
    /\ op = "download_past_release"
    /\ releases = Some(<<R1>>)
    /\ args.release_id = R2
    /\ result = InvalidRelease

C7_Name(i) ==
    args.datasetname \o "_"
        \o (IF op = "download_latest_release" THEN "latest" ELSE args.release_id)
        \o "_" \o ToString(i) \o ".json.gz"

C7_Files == manifest[1].files

(***************************************************************************)
(* C7: download_latest_release / download_past_release on a manifest of    *)
(* N >= 1 URLs, all downloads succeeding, write exactly N files, the i-th  *)
(* URL (0-based) to {dataset}_{release id or "latest"}_{i}.json.gz, in     *)
(* manifest order, each holding the body of its own URL; the N names are   *)
(* pairwise distinct, and a repeated call with the same arguments uses the *)
(* same names, overwriting the earlier files.                              *)
(***************************************************************************)
C7_Theorem ==
    (Done /\ op \in ReleaseDownloadOps /\ result = "ok")
        => /\ Len(C7_Files) >= 1
           /\ Opens = [i \in 1..Len(C7_Files) |-> Event("open", C7_Name(i - 1))]
           /\ FileGets = [i \in 1..Len(C7_Files) |-> Event("GET", C7_Files[i])]
           /\ \A i \in 1..Len(C7_Files) :
                /\ C7_Name(i - 1) \in DOMAIN fs
                /\ fs[C7_Name(i - 1)] = Concat(Body(C7_Files[i]))
           /\ \A i, j \in 1..Len(C7_Files) : i # j => C7_Name(i - 1) # C7_Name(j - 1)
           /\ \A i \in DOMAIN prev.queue :
                /\ prev.queue[i].save_name = C7_Name(i - 1)
                /\ prev.queue[i].save_name \in DOMAIN fs

\* A repetition that found other URLs at the same positions: same names,
\* new contents.
C7_Witness ==
    /\ Done
    /\ op = "download_past_release"
    /\ result = "ok"
    /\ Len(C7_Files) = 2
    /\ prev.result = "ok"
    /\ Len(prev.queue) = 2
    /\ prev.queue[1].url # C7_Files[1]

C8_EntryEvents(d, kind, files) ==
    [p \in 1..(3 * Len(files)) |->
        LET i == (p - 1) \div 3
            n == args.datasetname \o "_" \o d.from_release \o "_" \o d.to_release
                    \o "_" \o kind \o "_" \o ToString(i) \o ".json.gz"
        IN  CASE (p - 1) % 3 = 0 -> Event("GET", files[i + 1])
              [] (p - 1) % 3 = 1 -> Event("open", n)
              [] OTHER -> Event("close", n)]

RECURSIVE C8_Events(_)
C8_Events(diffs) ==
    IF diffs = <<>> THEN <<>>
    ELSE C8_EntryEvents(Head(diffs), "update", Head(diffs).update_files)
            \o C8_EntryEvents(Head(diffs), "delete", Head(diffs).delete_files)
            \o C8_Events(Tail(diffs))

(***************************************************************************)
(* C8: download_diffs works through the diff manifest strictly in order:   *)
(* entries as returned, within an entry every update file (0, 1, ...)      *)
(* before every delete file (0, 1, ...), the i-th of them written to       *)
(* {dataset}_{from}_{to}_update_{i}.json.gz / ..._delete_{i}.json.gz with  *)
(* from/to taken from the entry; no download starts before the previous    *)
(* one has finished.                                                       *)
(***************************************************************************)
C8_Theorem ==
    (op = "download_diffs" /\ manifest # Nothing)
        => LET expected == C8_Events(manifest[1].diffs)
               actual == Tail(log)
           IN  /\ IsPrefix(actual, expected)
               /\ (Done /\ result = "ok") => actual = expected

\* The manifest of one entry, 2 update files and 1 delete file, between
\* releases that are not the call's arguments.
C8_Witness ==
    /\ Done
    /\ op = "download_diffs"
    /\ result = "ok"
    /\ args.end_release_id = "latest"
    /\ Len(manifest[1].diffs) = 1
    /\ Len(Opens) = 3

(***************************************************************************)
(* C9: in the three download methods the first file download that fails   *)
(* ends the operation with that error: no later URL of the manifest is     *)
(* requested, no later destination is written, the files requested are a   *)
(* prefix of the manifest order, each requested once.                      *)
(***************************************************************************)
C9_Theorem ==
    (op \in DownloadOps /\ queue # <<>>)
        => /\ FileGets = [i \in 1..idx |-> Event("GET", queue[i].url)]
           /\ \A i \in DOMAIN Opens : Opens[i].what = queue[i].save_name
           /\ Len(Opens) \in {idx - 1, idx}
           /\ (Done /\ result # "ok")
                => /\ result \in TransportErrors
                   /\ \A j \in (idx + 1)..Len(queue) :
                        /\ \A e \in Range(log) :
                            e.what \notin {queue[j].url, queue[j].save_name}
                        /\ queue[j].save_name \in DOMAIN fs
                                => /\ queue[j].save_name \in DOMAIN fsBefore
                                   /\ fs[queue[j].save_name]
                                        = fsBefore[queue[j].save_name]
                        /\ queue[j].save_name \in DOMAIN fsBefore
                                => queue[j].save_name \in DOMAIN fs

C9_Witness ==
    /\ Done
    /\ op = "download_diffs"
    /\ result = HTTPError
    /\ idx = 2
    /\ Len(queue) = 3

(***************************************************************************)
(* C10: __download_file opens its destination only after the final         *)
(* response has a successful status: when the request ends in an error     *)
(* status or in exhausted retries the destination is exactly as before the *)
(* call; it is left partial only when streaming the body fails.            *)
(***************************************************************************)
C10_Theorem ==
    /\ (stage = "file" /\ (pc = "request" \/ (Done /\ result \in RequestErrors)))
            => fs = fsBefore
    /\ (stage = "file" /\ Done /\ result # "ok" /\ fs # fsBefore)
            => /\ result = StreamError
               /\ fs[current_save_name]
                    \in {Concat(SubSeq(Body(url), 1, n)) : n \in 0..(Len(Body(url)) - 1)}
               /\ \A f \in DOMAIN fsBefore \ {current_save_name} :
                    f \in DOMAIN fs /\ fs[f] = fsBefore[f]

\* A download fails on its status while an earlier run's complete file is
\* at the destination.
C10_Witness ==
    /\ Done
    /\ stage = "file"
    /\ result = RetryError
    /\ current_save_name \in DOMAIN fs
    /\ fs[current_save_name] = Concat(Body(FileUrl(2)))
    /\ url = FileUrl(1)

====
